---- MODULE Spec2Model ----
(***************************************************************************)
(* The Instagram publishing client of src/src/services/instagram.ts.       *)
(*                                                                         *)
(* The file holds three successive versions of publishToInstagram:         *)
(*   "V1"  lines   1-168  URL-reference upload, publish, then poll (10)    *)
(*   "V2"  lines 170-377  direct-binary image / two-phase video upload,    *)
(*                        poll (20), then publish                          *)
(*   "V3"  lines 380-598  resumable-session upload, poll (20), then publish*)
(*                                                                         *)
(* One call of publishToInstagram is a record call[c]; one action is one   *)
(* awaited step of the code (an HTTP request together with the handling of *)
(* its response, or one setTimeout delay).  The platform's answers are     *)
(* drawn from small sets.  Strings built with template literals are        *)
(* sequences of their parts.                                               *)
(*                                                                         *)
(* The callers of publishToInstagram are one record, app: the flow         *)
(* publishInstagramPostFlow (src/unnamed/part_003), the server action      *)
(* publishAdToInstagram (src/src/components/dashboard/actions.ts) and the  *)
(* form's handlePublish, which exists with the automatic save              *)
(* (src/unnamed/part_001) and without it (ad-generator-form.tsx).          *)
(***************************************************************************)
EXTENDS Integers, Sequences, FiniteSets, TLC

VARIABLES call, app

vars == <<call, app>>

(***************************************************************************)
(* Bounds of the model                                                     *)
(***************************************************************************)
\* how many distinct identifiers the platform may hand out
NumIds == 2

IdPool == <<"17841", "17842", "17843", "17844">>
Ids == {IdPool[k] : k \in 1..NumIds}

\* the calls of publishToInstagram the model knows
Calls == {"call1", "call2"}

(***************************************************************************)
(* Values                                                                  *)
(***************************************************************************)
\* a field that a JSON body does not carry, a variable not yet assigned
Absent == "<absent>"

Variants == {"V1", "V2", "V3"}
MediaTypes == {"image", "video"}

AccessToken == "t"
BusinessAccountId == "b"
Caption == "Hello"

API_VERSION == "v20.0"
BASE_URL == <<"https://graph.facebook.com/", API_VERSION>>

\* base64 payloads, one character per piece: the bytes "ABC", which no prober
\* knows, and the first twelve bytes of an MP4 file (a box of type ftyp)
UnknownBytesPayload == <<"Q", "U", "J", "D">>
Mp4Payload ==
    <<"A", "A", "A", "A", "G", "G", "Z", "0", "e", "X", "B", "p", "c", "2", "9", "t">>

\* a media source is a string, kept as the sequence of its pieces; "," is
\* the only piece that holds a comma
MediaDataUris ==
    { <<>>,
      <<"https://x/y.jpg">>,
      <<"data:image/png;base64", ",">>,
      <<"data:image/png;base64", ",">> \o UnknownBytesPayload,
      <<"data:video/mp4;base64", ",">> \o Mp4Payload \o <<",">> \o UnknownBytesPayload }

\* the loop bounds: for (let i = 0; i < 10; i++) and for (let i = 0; i < 20; i++)
MaxPollsPublishThenPoll == 10
MaxPollsPollThenPublish == 20

MaxPolls(v) == IF v = "V1" THEN MaxPollsPublishThenPoll ELSE MaxPollsPollThenPublish

\* the message parts the code uses
Prefix == "Instagram publishing failed: "
UnknownError == "An unknown error occurred."
TimedOutV1 == "Publishing timed out."
TimedOut == "Media container processing timed out."
InvalidDataUri == "Invalid data URI provided."

PlatformMessage == "(#100) rejected by the platform"
PlatformStatus == "Error: media could not be processed"

\* json.error?.message: no error object, an empty message, a message
ErrorMessages == {Absent, "", PlatformMessage}
StatusCodes == {Absent, "IN_PROGRESS", "FINISHED", "ERROR", "EXPIRED", "PUBLISHED"}
StatusTexts == {Absent, PlatformStatus}

Kinds == {"session", "create", "bytes", "publish", "poll"}

(***************************************************************************)
(* The platform's answers.  net = "network": fetch rejects; net =          *)
(* "nonjson": response.json() rejects; net = "ok": a parsed JSON body.     *)
(***************************************************************************)
Body(kind, net, ok, id, success, errmsg, code, status) ==
    [kind |-> kind, net |-> net, ok |-> ok, id |-> id, success |-> success,
     errmsg |-> errmsg, status_code |-> code, status |-> status]

NoResp == Body("none", "ok", FALSE, Absent, Absent, Absent, Absent, Absent)

TransportFailures(kind) ==
    { Body(kind, net, FALSE, Absent, Absent, Absent, Absent, Absent) :
        net \in {"network", "nonjson"} }

\* session request, container creation, media_publish: { id?, error? }
IdResponses(kind) ==
    TransportFailures(kind) \cup
    { Body(kind, "ok", ok, id, Absent, em, Absent, Absent) :
        ok \in BOOLEAN, id \in {Absent, ""} \cup Ids, em \in ErrorMessages }

\* byte upload: { success?, error? }
SuccessResponses(kind) ==
    TransportFailures(kind) \cup
    { Body(kind, "ok", ok, Absent, su, em, Absent, Absent) :
        ok \in BOOLEAN, su \in {Absent, "false", "true"}, em \in ErrorMessages }

\* status read: { status_code?, status?, error? }
StatusResponses ==
    TransportFailures("poll") \cup
    { Body("poll", "ok", ok, Absent, Absent, em, sc, st) :
        ok \in BOOLEAN, em \in ErrorMessages, sc \in StatusCodes, st \in StatusTexts }

(***************************************************************************)
(* JavaScript's truthiness and string conversion on these values           *)
(***************************************************************************)
\* !x
Falsy(x) == x \in {Absent, "", "false"}

\* `${x}` of a field
Str(x) == IF x = Absent THEN "undefined" ELSE x

\* faulty variant: a ?? b, which keeps an empty string
NullishOnly(a, b) == IF a = Absent THEN <<b>> ELSE <<a>>
\* a || b on message strings; the result is a message (a sequence of parts)
OrElse(a, b) == IF Falsy(a) THEN <<b>> ELSE <<a>>

(***************************************************************************)
(* mediaDataUri.split(',')[1]                                              *)
(***************************************************************************)
\* the positions of the commas of a string
Commas(s) == {k \in 1..Len(s) : s[k] = ","}

\* the piece that follows the first `n` commas; position 0 and the position
\* past the end stand for the string's two ends
SplitFrom(s, n) ==
    LET before(k) == Cardinality({m \in Commas(s) : m < k})
        start == IF n = 0 THEN 0 ELSE CHOOSE k \in Commas(s) : before(k) = n - 1
        stop == IF n = Cardinality(Commas(s)) THEN Len(s) + 1
                ELSE CHOOSE k \in Commas(s) : before(k) = n
    IN SubSeq(s, start + 1, stop - 1)

\* String.prototype.split(',')
Split(s) == [n \in 1..(Cardinality(Commas(s)) + 1) |-> SplitFrom(s, n - 1)]

\* an index past the end of an array reads undefined
UndefinedString == <<Absent>>
Base64DataOf(uri) ==
    LET parts == Split(uri) IN IF Len(parts) >= 2 THEN parts[2] ELSE UndefinedString

(***************************************************************************)
(* Buffer.from(base64Data, 'base64') and fileTypeFromBuffer(buffer).       *)
(* A buffer is the sequence of its bytes.                                  *)
(***************************************************************************)
Base64Alphabet ==
    << "A", "B", "C", "D", "E", "F", "G", "H", "I", "J", "K", "L", "M", "N", "O", "P",
       "Q", "R", "S", "T", "U", "V", "W", "X", "Y", "Z", "a", "b", "c", "d", "e", "f",
       "g", "h", "i", "j", "k", "l", "m", "n", "o", "p", "q", "r", "s", "t", "u", "v",
       "w", "x", "y", "z", "0", "1", "2", "3", "4", "5", "6", "7", "8", "9", "+", "/" >>

\* the six bits a character stands for; "-" and "_" are read as "+" and "/"
Base64Values ==
    [ch \in {Base64Alphabet[k] : k \in 1..64} \cup {"-", "_"} |->
        IF ch = "-" THEN 62
        ELSE IF ch = "_" THEN 63
        ELSE (CHOOSE k \in 1..64 : Base64Alphabet[k] = ch) - 1]

\* -1 for "=" and for every character outside the alphabet
Base64Value(ch) == IF ch \in DOMAIN Base64Values THEN Base64Values[ch] ELSE -1

\* the sextets of a payload: decoding ends at the first "=", characters
\* outside the alphabet are skipped
IsBase64Char(ch) == Base64Value(ch) >= 0

Sextets(str) ==
    LET pads == {k \in 1..Len(str) : str[k] = "="}
        stop == IF pads = {} THEN Len(str) + 1
                ELSE CHOOSE k \in pads : \A m \in pads : k <= m
        kept == SelectSeq(SubSeq(str, 1, stop - 1), IsBase64Char)
    IN [k \in 1..Len(kept) |-> Base64Value(kept[k])]

\* four sextets are three bytes; a rest of three is two bytes, of two is one
\* byte, a single sextet is dropped
BytesOf(v) ==
    [j \in 1..((Len(v) * 3) \div 4) |->
        LET i == 4 * ((j - 1) \div 3) + 1
            r == (j - 1) % 3
        IN IF r = 0 THEN v[i] * 4 + v[i + 1] \div 16
           ELSE IF r = 1 THEN (v[i + 1] % 16) * 16 + v[i + 2] \div 4
           ELSE (v[i + 2] % 4) * 64 + v[i + 3]]

\* faulty variant: Buffer.from(base64Data), the text taken as it is, one
\* byte for each character
BufferFromText(base64Data) ==
    [k \in 1..Len(base64Data) |-> Base64Value(base64Data[k]) + 1]
\* Buffer.from(base64Data, 'base64')
BufferFrom(base64Data) == BytesOf(Sextets(base64Data))

\* fileDetails of a type that is not known: undefined
NoFileDetails == [mime |-> Absent, ext |-> Absent]

\* fileTypeFromBuffer: the type the leading bytes announce, or undefined
FileTypeFromBuffer(buffer) ==
    IF Len(buffer) >= 3 /\ SubSeq(buffer, 1, 3) = <<255, 216, 255>>
    THEN [mime |-> "image/jpeg", ext |-> "jpg"]
    ELSE IF Len(buffer) >= 4 /\ SubSeq(buffer, 1, 4) = <<137, 80, 78, 71>>
    THEN [mime |-> "image/png", ext |-> "png"]
    ELSE IF Len(buffer) >= 12 /\ SubSeq(buffer, 5, 8) = <<102, 116, 121, 112>>
    THEN [mime |-> "video/mp4", ext |-> "mp4"]
    ELSE NoFileDetails

\* faulty variant: the detected type is ignored
DefaultOnly(v, mediaType, mime) ==
    IF mediaType = "image" THEN "image/jpeg"
    ELSE IF v = "V2" THEN "application/octet-stream" ELSE "video/mp4"
\* fileDetails?.mime || '<default of the media kind>'
ContentTypeOf(v, mediaType, mime) ==
    IF ~Falsy(mime) THEN mime
    ELSE IF v = "V2"
         THEN (IF mediaType = "image" THEN "image/jpeg" ELSE "application/octet-stream")
         ELSE (IF mediaType = "image" THEN "image/jpeg" ELSE "video/mp4")

\* faulty variant: only a missing payload is refused, not an empty one
OnlyUndefined(b) == b = UndefinedString
\* !base64Data
NoBase64Data(b) == b = UndefinedString \/ b = <<>>

(***************************************************************************)
(* URLs                                                                    *)
(***************************************************************************)
MediaUrl == BASE_URL \o <<"/", BusinessAccountId, "/media">>
\* `${url}?${params.toString()}` of the direct image upload
ImageUploadUrl == MediaUrl \o <<"?caption=", Caption, "&access_token=", AccessToken>>
PublishUrl == BASE_URL \o <<"/", BusinessAccountId, "/media_publish">>
NodeUrl(id) == BASE_URL \o <<"/", id>>
StatusUrl(id) ==
    BASE_URL \o <<"/", id, "?fields=status_code,status&access_token=", AccessToken>>

(***************************************************************************)
(* Thrown values.  Every value the stages throw is an Error.               *)
(***************************************************************************)
NewError(message) == [isError |-> TRUE, message |-> message]

\* what an await of fetch(url) / response.json() rejects with (node-fetch's
\* FetchError, an Error naming the request's URL)
FetchError(resp, url) ==
    IF resp.net = "network"
    THEN NewError(<<"request to ">> \o url \o <<" failed">>)
    ELSE NewError(<<"invalid json response body at ">> \o url)

\* faulty variant: the prefix is put on twice
WrapTwice(thrown) ==
    <<Prefix, Prefix>> \o (IF thrown.isError THEN thrown.message ELSE <<UnknownError>>)
\* the catch block of publishToInstagram: the message of the error it throws
WrapError(thrown) ==
    <<Prefix>> \o (IF thrown.isError THEN thrown.message ELSE <<UnknownError>>)

(***************************************************************************)
(* The code's judgement of a parsed response                               *)
(***************************************************************************)
\* faulty variants: the id is not looked at; the HTTP status is not looked at
OnlyHttpStatus(resp) == ~resp.ok
OnlyIdChecked(resp) == Falsy(resp.id)
\* if (!response.ok || !json.id)
IdMissing(resp) == ~resp.ok \/ Falsy(resp.id)

\* faulty variants: the byte upload's answer is not looked at; its success
\* flag is not looked at
UploadAlwaysAccepted(resp) == FALSE
UploadOnlyHttpStatus(resp) == ~resp.ok
\* if (!uploadResponse.ok || !uploadJson.success)
UploadRejected(resp) == ~resp.ok \/ Falsy(resp.success)

\* faulty variant: the status read's HTTP status is not looked at
StatusReadIgnored(resp) == FALSE
\* if (!statusResponse.ok)
StatusReadFailed(resp) == ~resp.ok

\* faulty variant: the wrong status name is waited for
FinishedIsPublished(resp) == resp.status_code = "PUBLISHED"
\* if (statusCode === 'FINISHED')
IsFinished(resp) == resp.status_code = "FINISHED"

\* faulty variants: EXPIRED is not terminal; every status but IN_PROGRESS is
OnlyError(resp) == resp.status_code = "ERROR"
NotInProgressFails(resp) == resp.status_code # "IN_PROGRESS"
\* if (statusCode === 'ERROR' || statusCode === 'EXPIRED')
IsProcessingFailure(resp) == resp.status_code = "ERROR" \/ resp.status_code = "EXPIRED"

\* faulty variant: the platform's message is dropped
GenericOnly(resp, generic) == NewError(<<generic>>)
\* json.error?.message || '<generic>'
MessageOr(resp, generic) == NewError(OrElse(resp.errmsg, generic))

\* the message thrown on ERROR / EXPIRED
ProcessingError(v, resp) ==
    CASE v = "V1" ->
           NewError(<<"Media publishing failed with status: ", Str(resp.status)>>)
      [] v = "V2" ->
           NewError(<<"Media container processing failed with status: ",
                      Str(resp.status_code), ". Status: ", Str(resp.status)>>)
      [] OTHER ->
           NewError(<<"Media container processing failed with status: ",
                      Str(resp.status)>>)

\* faulty variants: off by one, either way
LoopOneMore(v, i) == i <= MaxPolls(v)
LoopOneLess(v, i) == i < MaxPolls(v) - 1
\* the loop condition i < 10 / i < 20
LoopContinues(v, i) == i < MaxPolls(v)

(***************************************************************************)
(* The state of one call                                                   *)
(***************************************************************************)
ZeroSent == [k \in Kinds |-> 0]
NoIds == [k \in Kinds |-> Absent]

NewCall(v, mt, uri, pc) ==
    [ variant |-> v, mediaType |-> mt, mediaDataUri |-> uri,
      \* the code's position and locals
      pc |-> pc, i |-> 0, base64Data |-> UndefinedString,
      buffer |-> <<>>, fileDetails |-> NoFileDetails,
      uploadSessionId |-> Absent, containerId |-> Absent, initialId |-> Absent,
      \* what the caller gets
      outcome |-> "pending", result |-> Absent, error |-> <<>>,
      \* history: the requests issued, the delays slept, the answers received
      sent |-> ZeroSent, ref |-> NoIds, got |-> NoIds,
      httpOk |-> [k \in Kinds |-> FALSE], success |-> Absent,
      contentType |-> Absent, body |-> <<>>,
      \* whether a console.log / console.error line held the access token
      tokenLogged |-> FALSE,
      delays |-> 0, delaysSincePoll |-> 0, delaysBeforeFirstPoll |-> 0,
      gapsOK |-> TRUE,
      lastResp |-> NoResp, lastPoll |-> NoResp,
      priorInProgress |-> TRUE, priorNonTerminal |-> TRUE,
      pollsBeforePublish |-> 0, finishedBeforePublish |-> FALSE,
      stageError |-> <<>>, thrown |-> 0 ]

InProgressAnswer(r) == r.net = "ok" /\ r.ok /\ r.status_code = "IN_PROGRESS"
NonTerminalAnswer(r) ==
    r.net = "ok" /\ r.ok /\ r.status_code \notin {"FINISHED", "ERROR", "EXPIRED"}
FinishedAnswer(r) == r.net = "ok" /\ r.ok /\ r.status_code = "FINISHED"

Embeds(seq, x) == \E k \in DOMAIN seq : seq[k] = x

\* what the console lines written on an answer may hold: the platform's error
\* object, the id, the status code
ConsoleLines(resp) == <<Str(resp.errmsg), Str(resp.id), Str(resp.status_code)>>

\* console.error('Error publishing to Instagram:', error) prints the caught
\* value, for an Error its message and stack
ConsoleError(thrown) ==
    <<"Error publishing to Instagram:">> \o
        (IF thrown.isError THEN thrown.message ELSE <<"thrown value">>)

\* the request of kind `kind`, naming identifier `ref`, is issued and `resp`
\* comes back
Send(s, kind, ref, resp) ==
    LET poll == kind = "poll"
        first == s.sent["poll"] = 0
    IN [ s EXCEPT
           !.sent[kind] = @ + 1,
           !.ref[kind] = ref,
           !.got[kind] = resp.id,
           !.httpOk[kind] = (resp.net = "ok" /\ resp.ok),
           !.success = IF kind = "bytes" THEN resp.success ELSE @,
           !.tokenLogged = @ \/ Embeds(ConsoleLines(resp), AccessToken),
           !.lastResp = resp,
           !.lastPoll = IF poll THEN resp ELSE @,
           !.gapsOK = IF poll /\ ~first THEN @ /\ s.delaysSincePoll = 1 ELSE @,
           !.delaysSincePoll = IF poll THEN 0 ELSE @,
           !.priorInProgress =
               IF poll /\ ~first THEN @ /\ InProgressAnswer(s.lastPoll) ELSE @,
           !.priorNonTerminal =
               IF poll /\ ~first THEN @ /\ NonTerminalAnswer(s.lastPoll) ELSE @,
           !.pollsBeforePublish = IF kind = "publish" THEN s.sent["poll"] ELSE @,
           !.finishedBeforePublish =
               IF kind = "publish" THEN FinishedAnswer(s.lastPoll) ELSE @ ]

\* the request that carries the media: body: buffer, with the Content-Type
\* header taken from the prober's answer
WithMedia(s) ==
    [ s EXCEPT
        !.body = s.buffer,
        !.contentType = ContentTypeOf(s.variant, s.mediaType, s.fileDetails.mime) ]

\* await new Promise(resolve => setTimeout(resolve, 5000))
Sleep(s) ==
    [ s EXCEPT
        !.delays = @ + 1,
        !.delaysSincePoll = @ + 1,
        !.delaysBeforeFirstPoll = IF s.sent["poll"] = 0 THEN @ + 1 ELSE @ ]

\* faulty variant: the catch starts the call over instead of rethrowing
RetryFromStart(s, thrown) == NewCall(s.variant, s.mediaType, s.mediaDataUri, "start")
\* a stage throws `thrown`; publishToInstagram's catch logs it and rethrows
\* it wrapped
Throw(s, thrown) ==
    [ s EXCEPT
        !.tokenLogged = @ \/ Embeds(ConsoleError(thrown), AccessToken),
        !.pc = "done", !.outcome = "thrown",
        !.error = WrapError(thrown),
        !.stageError = thrown.message,
        !.thrown = @ + 1 ]

\* publishToInstagram returns `v`
Return(s, v) == [ s EXCEPT !.pc = "done", !.outcome = "returned", !.result = v ]

Goto(s, pc) == [ s EXCEPT !.pc = pc ]

\* faulty variant: containerId is one variable shared by all calls
SetSharedContainer(c, s) ==
    /\ call' = [d \in Calls |->
                   IF d = c THEN s ELSE [call[d] EXCEPT !.containerId = s.containerId]]
    /\ UNCHANGED app
\* the locals of a call belong to that call
Set(c, s) == call' = [call EXCEPT ![c] = s] /\ UNCHANGED app

(***************************************************************************)
(* publishToInstagram: what follows uploadMedia, and the poll loops        *)
(***************************************************************************)
\* faulty variant: a failed step is issued again
HandleRetry(s, resp, url, failed, generic, success) ==
    IF resp.net # "ok" \/ failed THEN s ELSE success
\* the handling every fetch shares: a rejected await, a judged failure, or
\* the step's success
Handle(s, resp, url, failed, generic, success) ==
    IF resp.net # "ok" THEN Throw(s, FetchError(resp, url))
    ELSE IF failed THEN Throw(s, MessageOr(resp, generic))
    ELSE success

\* the head of pollForCompletion's loop (V1): delay, then poll
LoopHeadV1(s) ==
    IF LoopContinues(s.variant, s.i) THEN Goto(s, "delay")
    ELSE Throw(s, NewError(<<TimedOutV1>>))

\* faulty variant: when the polls are used up the container is published
PublishOnTimeout(s) ==
    IF LoopContinues(s.variant, s.i) THEN Goto(s, "poll") ELSE Goto(s, "publish")
\* the head of pollForContainerReady's loop (V2, V3): poll, then delay
LoopHead(s) ==
    IF LoopContinues(s.variant, s.i) THEN Goto(s, "poll")
    ELSE Throw(s, NewError(<<TimedOut>>))

\* faulty variant: no wait after the last poll of the budget
SkipLastDelay(s) ==
    IF LoopContinues(s.variant, s.i + 1) THEN Goto(s, "delay")
    ELSE Throw(s, NewError(<<TimedOut>>))
\* the end of pollForContainerReady's loop body: the wait comes before i++
\* and the loop condition
AfterNonTerminalPoll(s) == Goto(s, "delay")

\* faulty variant: the id of the status answer is returned
StatusId(initialId, statusId) == statusId
\* pollForCompletion: return initialJson.id
PostIdV1(initialId, statusId) == initialId

\* faulty variant: publish without waiting for the container
PublishFirst(s) == Goto(s, "publish")
\* the statement after `const containerId = await uploadMedia(...)`
AfterUpload(s) == IF s.variant = "V1" THEN Goto(s, "publish") ELSE LoopHead(s)

\* faulty variant: the session id is returned
ReturnSessionId(sessionId, createdId) == sessionId
\* uploadMedia's return value in V3: containerJson.id
ReturnedContainer(sessionId, createdId) == createdId

(***************************************************************************)
(* V1: URL-reference upload, publish, then poll                            *)
(***************************************************************************)
\* uploadMedia: POST /{businessAccountId}/media with image_url | video_url
UploadMediaV1(c) ==
    LET s == call[c] IN
    /\ s.variant = "V1" /\ s.pc = "start"
    /\ \E resp \in IdResponses("create") :
         LET s1 == Send(s, "create", Absent, resp) IN
         Set(c, Handle(s1, resp, MediaUrl, IdMissing(resp),
                       "Failed to upload media to Instagram.",
                       AfterUpload([s1 EXCEPT !.containerId = resp.id])))

\* publishMediaContainer -> pollForCompletion: the initial POST media_publish
InitialPublishV1(c) ==
    LET s == call[c] IN
    /\ s.variant = "V1" /\ s.pc = "publish"
    /\ \E resp \in IdResponses("publish") :
         LET s1 == Send(s, "publish", s.containerId, resp) IN
         Set(c, Handle(s1, resp, PublishUrl, IdMissing(resp),
                       "Failed to initiate media publishing.",
                       LoopHeadV1([s1 EXCEPT !.initialId = resp.id, !.i = 0])))

\* pollForCompletion: await new Promise(resolve => setTimeout(resolve, 5000))
DelayV1(c) ==
    LET s == call[c] IN
    /\ s.variant = "V1" /\ s.pc = "delay"
    /\ Set(c, Goto(Sleep(s), "poll"))

\* pollForCompletion: one status read and the rest of the loop body
PollV1(c) ==
    LET s == call[c] IN
    /\ s.variant = "V1" /\ s.pc = "poll"
    /\ \E resp \in StatusResponses :
         LET s1 == Send(s, "poll", s.containerId, resp) IN
         Set(c, Handle(s1, resp, StatusUrl(s.containerId), StatusReadFailed(resp),
                       "Failed to get publishing status.",
                       IF IsFinished(resp) THEN Return(s1, PostIdV1(s.initialId, resp.id))
                       ELSE IF IsProcessingFailure(resp)
                       THEN Throw(s1, ProcessingError("V1", resp))
                       ELSE LoopHeadV1([s1 EXCEPT !.i = @ + 1])))

(***************************************************************************)
(* V2, V3: decoding the data URI                                           *)
(***************************************************************************)
\* uploadMedia up to `await fileTypeFromBuffer(buffer)`
Decode(c) ==
    LET s == call[c]
        b == Base64DataOf(s.mediaDataUri)
        s1 == [s EXCEPT !.base64Data = b]
        s2 == [s1 EXCEPT !.buffer = BufferFrom(b),
                         !.fileDetails = FileTypeFromBuffer(BufferFrom(b))]
    IN
    /\ s.variant \in {"V2", "V3"} /\ s.pc = "start"
    /\ Set(c, IF NoBase64Data(b) THEN Throw(s1, NewError(<<InvalidDataUri>>))
              ELSE IF s.variant = "V3" THEN Goto(s2, "createUploadSession")
              ELSE IF s.mediaType = "image" THEN Goto(s2, "uploadImage")
              ELSE Goto(s2, "createVideoContainer"))

(***************************************************************************)
(* V2: direct-binary image, two-phase video                                *)
(***************************************************************************)
\* uploadMedia, image: POST the bytes to /{businessAccountId}/media
UploadImageV2(c) ==
    LET s == call[c] IN
    /\ s.variant = "V2" /\ s.pc = "uploadImage"
    /\ \E resp \in IdResponses("create") :
         LET s1 == WithMedia(Send(s, "create", Absent, resp)) IN
         Set(c, Handle(s1, resp, ImageUploadUrl, IdMissing(resp),
                       "Failed to upload image.",
                       AfterUpload([s1 EXCEPT !.containerId = resp.id])))

\* uploadMedia, video, step 1: create the container
CreateVideoContainerV2(c) ==
    LET s == call[c] IN
    /\ s.variant = "V2" /\ s.pc = "createVideoContainer"
    /\ \E resp \in IdResponses("create") :
         LET s1 == Send(s, "create", Absent, resp) IN
         Set(c, Handle(s1, resp, MediaUrl, IdMissing(resp),
                       "Failed to create video container.",
                       Goto([s1 EXCEPT !.containerId = resp.id], "uploadVideoFile")))

\* faulty variant: the bytes go to the account node
UploadToAccount(s) == BusinessAccountId
\* const uploadUrl = `${BASE_URL}/${containerId}`
VideoUploadTarget(s) == s.containerId

\* uploadMedia, video, step 2: POST the bytes to /{containerId}
UploadVideoFileV2(c) ==
    LET s == call[c] IN
    /\ s.variant = "V2" /\ s.pc = "uploadVideoFile"
    /\ \E resp \in SuccessResponses("bytes") :
         LET s1 == WithMedia(Send(s, "bytes", VideoUploadTarget(s), resp)) IN
         Set(c, Handle(s1, resp, NodeUrl(VideoUploadTarget(s)), UploadRejected(resp),
                       "Failed to upload video file to Instagram.",
                       AfterUpload(s1)))

(***************************************************************************)
(* V3: resumable session                                                   *)
(***************************************************************************)
\* faulty variant: the container is created before the bytes are uploaded
SkipUpload(s) == Goto(s, "createContainer")
\* after the session request succeeded: step 2, the byte upload
AfterSession(s) == Goto(s, "uploadToSession")

\* uploadMedia, step 1: request an upload session
CreateUploadSessionV3(c) ==
    LET s == call[c] IN
    /\ s.variant = "V3" /\ s.pc = "createUploadSession"
    /\ \E resp \in IdResponses("session") :
         LET s1 == Send(s, "session", Absent, resp) IN
         Set(c, Handle(s1, resp, MediaUrl, IdMissing(resp),
                       "Failed to create upload session.",
                       AfterSession([s1 EXCEPT !.uploadSessionId = resp.id])))

\* uploadMedia, step 2: POST the bytes to /{uploadSessionId}
UploadToSessionV3(c) ==
    LET s == call[c] IN
    /\ s.variant = "V3" /\ s.pc = "uploadToSession"
    /\ \E resp \in SuccessResponses("bytes") :
         LET s1 == WithMedia(Send(s, "bytes", s.uploadSessionId, resp)) IN
         Set(c, Handle(s1, resp, NodeUrl(s.uploadSessionId), UploadRejected(resp),
                       "Failed to upload media file to Instagram.",
                       Goto(s1, "createContainer")))

\* uploadMedia, step 3: create the container from the session (upload_id)
CreateContainerV3(c) ==
    LET s == call[c] IN
    /\ s.variant = "V3" /\ s.pc = "createContainer"
    /\ \E resp \in IdResponses("create") :
         LET s1 == Send(s, "create", s.uploadSessionId, resp) IN
         Set(c, Handle(s1, resp, MediaUrl, IdMissing(resp),
                       "Failed to create media container from upload session.",
                       AfterUpload([s1 EXCEPT !.containerId =
                                      ReturnedContainer(s.uploadSessionId, resp.id)])))

(***************************************************************************)
(* V2, V3: pollForContainerReady and publishMediaContainer                 *)
(***************************************************************************)
\* pollForContainerReady: one status read and the checks on it
PollForContainerReady(c) ==
    LET s == call[c] IN
    /\ s.variant \in {"V2", "V3"} /\ s.pc = "poll"
    /\ \E resp \in StatusResponses :
         LET s1 == Send(s, "poll", s.containerId, resp) IN
         Set(c, Handle(s1, resp, StatusUrl(s.containerId), StatusReadFailed(resp),
                       "Failed to get container status.",
                       IF IsFinished(resp) THEN Goto(s1, "publish")
                       ELSE IF IsProcessingFailure(resp)
                       THEN Throw(s1, ProcessingError(s.variant, resp))
                       ELSE AfterNonTerminalPoll(s1)))

\* pollForContainerReady: the 5 second wait, i++, and the loop condition
DelayForContainerReady(c) ==
    LET s == call[c] IN
    /\ s.variant \in {"V2", "V3"} /\ s.pc = "delay"
    /\ Set(c, LoopHead([Sleep(s) EXCEPT !.i = @ + 1]))

\* publishMediaContainer: POST media_publish with creation_id
PublishMediaContainer(c) ==
    LET s == call[c] IN
    /\ s.variant \in {"V2", "V3"} /\ s.pc = "publish"
    /\ \E resp \in IdResponses("publish") :
         LET s1 == Send(s, "publish", s.containerId, resp) IN
         Set(c, Handle(s1, resp, PublishUrl, IdMissing(resp),
                       "Failed to publish media container.",
                       Return(s1, resp.id)))

(***************************************************************************)
(* The callers: handlePublish -> publishAdToInstagram ->                   *)
(* publishInstagramPostFlow -> publishToInstagram                          *)
(***************************************************************************)
\* the two versions of the form component
UiVersions == {"part_001", "ad-generator-form.tsx"}

ToastTitles ==
    {"Authentication Error", "Publishing Failed", "Published Successfully!",
     "Ad Saved!", "Save Failed"}

AuthenticationRequired == "Authentication required to publish."
UnexpectedError == "An unexpected error occurred during publishing."
UserNotFound == "User not found."
CredentialsNotConfigured ==
    "Instagram credentials are not configured. Please add them on the Credentials page."

\* generatedContent: null, or the generated ad
NoContent ==
    [present |-> FALSE, caption |-> "", hashtags |-> <<>>,
     imageDataUri |-> <<>>, videoDataUri |-> <<>>]
Contents ==
    {NoContent} \cup
    [present : {TRUE}, caption : {Caption}, hashtags : {<<>>, <<"#a", "#b">>},
     imageDataUri : {<<>>, <<"data:image/png;base64", ",">> \o UnknownBytesPayload},
     videoDataUri : {<<>>, <<"data:video/mp4;base64", ",">> \o Mp4Payload}]

\* auth.currentUser: null, or a user with its uid
Users == {[present |-> FALSE, uid |-> ""], [present |-> TRUE, uid |-> ""],
          [present |-> TRUE, uid |-> "u1"]}

\* what getDoc(users/<uid>) gives: a rejection (an Error, or a value without
\* message), a snapshot that does not exist, or the user's data
UserDocs ==
    [get : {"rejects", "rejectsWithoutMessage"}, exists : {FALSE},
     instagramAccessToken : {Absent}, instagramBusinessAccountId : {Absent}]
    \cup
    [get : {"resolves"}, exists : {FALSE},
     instagramAccessToken : {Absent}, instagramBusinessAccountId : {Absent}]
    \cup
    [get : {"resolves"}, exists : {TRUE},
     instagramAccessToken : {Absent, "", AccessToken},
     instagramBusinessAccountId : {Absent, BusinessAccountId}]

NoArguments ==
    [accessToken |-> Absent, businessAccountId |-> Absent, caption |-> <<>>,
     mediaDataUri |-> <<>>, mediaType |-> Absent]
NoResult == [error |-> <<>>, postId |-> Absent]

NewApp(ui, v, content, user, userDoc, pc) ==
    [ uiVersion |-> ui, variant |-> v,
      generatedContent |-> content, currentUser |-> user, userDoc |-> userDoc,
      pc |-> pc, isPublishing |-> FALSE, isSaving |-> FALSE,
      \* what publishAdToInstagram was given and what it returned
      userId |-> Absent, result |-> NoResult, actionReturns |-> 0,
      \* what publishToInstagram was given
      passed |-> NoArguments,
      \* history: the calls made and the notifications shown
      actionCalls |-> 0, flowCalls |-> 0, serviceCalls |-> 0, saveCalls |-> 0,
      addDocs |-> 0,
      toasts |-> [t \in ToastTitles |-> 0], description |-> <<>> ]

AppIdle == NewApp("part_001", "V1", NoContent, [present |-> FALSE, uid |-> ""],
                  [get |-> "resolves", exists |-> FALSE,
                   instagramAccessToken |-> Absent,
                   instagramBusinessAccountId |-> Absent], "idle")

\* a text is a sequence of parts; "" and undefined are falsy
EmptyText(m) == \A k \in DOMAIN m : m[k] = ""

\* adContent.imageDataUri || adContent.videoDataUri || ""
MediaDataUriOf(adContent) ==
    IF ~EmptyText(adContent.imageDataUri) THEN adContent.imageDataUri
    ELSE IF ~EmptyText(adContent.videoDataUri) THEN adContent.videoDataUri
    ELSE <<>>

\* adContent.imageDataUri ? 'image' : 'video'
MediaTypeOf(adContent) == IF ~EmptyText(adContent.imageDataUri) THEN "image" ELSE "video"

\* Array.prototype.join(' ')
RECURSIVE Join(_)
Join(hashtags) ==
    IF hashtags = <<>> THEN <<>>
    ELSE IF Len(hashtags) = 1 THEN <<hashtags[1]>>
    ELSE <<hashtags[1], " ">> \o Join(Tail(hashtags))

\* `${input.caption}\n\n${input.hashtags.join(' ')}`
FullCaption(caption, hashtags) == <<caption, "\n\n">> \o Join(hashtags)

\* faulty variant: only the token is looked at
OnlyTokenChecked(userData) == Falsy(userData.instagramAccessToken)
\* !accessToken || !businessAccountId
CredentialsMissing(userData) ==
    Falsy(userData.instagramAccessToken) \/ Falsy(userData.instagramBusinessAccountId)

\* faulty variant: the caught message is returned as it is
CaughtMessageOnly(thrown) == [error |-> thrown.message, postId |-> Absent]
\* publishAdToInstagram's catch: { error: error.message || '<unexpected>' }
Caught(thrown) ==
    [error |-> IF EmptyText(thrown.message) THEN <<UnexpectedError>> ELSE thrown.message,
     postId |-> Absent]

\* faulty variant: the ad is saved whatever the publish returned
SavedAlways(ui, result) == ui = "part_001"
\* the else branch of handlePublish, which only part_001 ends with
\* await handleSaveAd()
SavedAfterPublish(ui, result) == ui = "part_001" /\ EmptyText(result.error)

Toast(a, title, description) ==
    [a EXCEPT !.toasts[title] = @ + 1, !.description = description]

\* publishAdToInstagram returns `result` to handlePublish
ActionReturns(a, result) ==
    [a EXCEPT !.result = result, !.actionReturns = @ + 1, !.pc = "result"]

\* handlePublish up to the call of publishAdToInstagram
HandlePublish ==
    /\ app.pc = "start"
    /\ app' =
         IF ~app.generatedContent.present THEN [app EXCEPT !.pc = "ended"]
         ELSE IF ~app.currentUser.present
         THEN [Toast(app, "Authentication Error",
                     <<"You must be logged in to publish an ad.">>)
                 EXCEPT !.pc = "ended"]
         ELSE [app EXCEPT !.isPublishing = TRUE, !.userId = app.currentUser.uid,
                          !.actionCalls = @ + 1, !.pc = "action"]
    /\ UNCHANGED call

\* publishAdToInstagram up to the call of publishInstagramPost
PublishAdToInstagram ==
    /\ app.pc = "action"
    /\ app' =
         IF Falsy(app.userId)
         THEN ActionReturns(app, [error |-> <<AuthenticationRequired>>, postId |-> Absent])
         ELSE [app EXCEPT !.flowCalls = @ + 1, !.pc = "getDoc"]
    /\ UNCHANGED call

\* publishInstagramPostFlow: getDoc, the two checks, and the call of
\* publishToInstagram
PublishInstagramPostFlow ==
    LET d == app.userDoc
        content == app.generatedContent
        uri == MediaDataUriOf(content)
        mt == MediaTypeOf(content)
    IN
    /\ app.pc = "getDoc"
    /\ IF d.get = "rejects"
       THEN app' = ActionReturns(app, Caught(NewError(<<"Failed to get document.">>)))
            /\ UNCHANGED call
       ELSE IF d.get = "rejectsWithoutMessage"
       THEN app' = ActionReturns(app, Caught([isError |-> FALSE, message |-> <<>>]))
            /\ UNCHANGED call
       ELSE IF ~d.exists
       THEN app' = ActionReturns(app, Caught(NewError(<<UserNotFound>>)))
            /\ UNCHANGED call
       ELSE IF CredentialsMissing(d)
       THEN app' = ActionReturns(app, Caught(NewError(<<CredentialsNotConfigured>>)))
            /\ UNCHANGED call
       ELSE /\ app' = [app EXCEPT
                         !.serviceCalls = @ + 1,
                         !.passed = [accessToken |-> d.instagramAccessToken,
                                     businessAccountId |-> d.instagramBusinessAccountId,
                                     caption |-> FullCaption(content.caption,
                                                             content.hashtags),
                                     mediaDataUri |-> uri, mediaType |-> mt],
                         !.pc = "service"]
            /\ call' = [call EXCEPT !["call1"] = NewCall(app.variant, mt, uri, "start")]

\* publishToInstagram ends: the flow wraps the id as { postId }, or the
\* server action catches what was thrown
ServiceEnds ==
    LET s == call["call1"] IN
    /\ app.pc = "service" /\ s.pc = "done"
    /\ app' = IF s.outcome = "returned"
              THEN ActionReturns(app, [error |-> <<>>, postId |-> s.result])
              ELSE ActionReturns(app, Caught(NewError(s.error)))
    /\ UNCHANGED call

\* handlePublish after the await: the notification, and in part_001 the
\* call of handleSaveAd
HandleResult ==
    /\ app.pc = "result"
    /\ app' =
         LET shown == IF ~EmptyText(app.result.error)
                      THEN Toast(app, "Publishing Failed", app.result.error)
                      ELSE Toast(app, "Published Successfully!",
                                 IF app.uiVersion = "part_001"
                                 THEN <<"Your ad has been posted to Instagram with ID: ",
                                        app.result.postId>>
                                 ELSE <<"Your ad has been posted to Instagram.">>)
         IN IF SavedAfterPublish(app.uiVersion, app.result)
            THEN [shown EXCEPT !.saveCalls = @ + 1, !.isSaving = TRUE, !.pc = "save"]
            ELSE [shown EXCEPT !.isPublishing = FALSE, !.pc = "ended"]
    /\ UNCHANGED call

\* handleSaveAd, awaited by handlePublish: addDoc resolves or rejects
HandleSaveAd ==
    /\ app.pc = "save"
    /\ \E saved \in BOOLEAN :
         app' = [Toast([app EXCEPT !.addDocs = @ + 1],
                       IF saved THEN "Ad Saved!" ELSE "Save Failed",
                       IF saved
                       THEN <<"Your generated ad has been saved to your history.">>
                       ELSE <<"Could not save the ad. Please check the console for errors.">>)
                   EXCEPT !.isSaving = FALSE, !.isPublishing = FALSE, !.pc = "ended"]
    /\ UNCHANGED call

(***************************************************************************)
(* The specification: one call, any variant, any input                     *)
(***************************************************************************)
Idle == NewCall("V1", "image", <<>>, "idle")

Init ==
    \E v \in Variants, mt \in MediaTypes, uri \in MediaDataUris :
        /\ call = [c \in Calls |->
                     IF c = "call1" THEN NewCall(v, mt, uri, "start") ELSE Idle]
        /\ app = AppIdle

Step(c) ==
    \/ UploadMediaV1(c)
    \/ InitialPublishV1(c)
    \/ DelayV1(c)
    \/ PollV1(c)
    \/ Decode(c)
    \/ UploadImageV2(c)
    \/ CreateVideoContainerV2(c)
    \/ UploadVideoFileV2(c)
    \/ CreateUploadSessionV3(c)
    \/ UploadToSessionV3(c)
    \/ CreateContainerV3(c)
    \/ PollForContainerReady(c)
    \/ DelayForContainerReady(c)
    \/ PublishMediaContainer(c)

Next == \E c \in Calls : Step(c)

Spec == Init /\ [][Next]_vars

(***************************************************************************)
(* The same call under fairness: every awaited HTTP call and every awaited *)
(* delay eventually completes.  The answers keep everything the control    *)
(* flow reads (transport outcome, HTTP status, id, success, status_code);  *)
(* the texts of the error body and of the status field are left out.       *)
(***************************************************************************)
FairAnswer(c) ==
    /\ call'[c].lastResp.errmsg = Absent
    /\ call'[c].lastResp.status = Absent

FairNext == \E c \in Calls : Step(c) /\ FairAnswer(c)

FairSpec == Init /\ [][FairNext]_vars /\ WF_vars(FairNext)

(***************************************************************************)
(* Two calls in flight at once (two requests to the server action), their  *)
(* awaited steps interleaved in every order.  The platform's answers are   *)
(* narrowed: a failure carries no body, a success carries what the step    *)
(* asks for, and the status_code is terminal at the latest on poll number  *)
(* PairMaxPolls.                                                           *)
(***************************************************************************)
PairMaxPolls == 2

PairAnswer(c) ==
    LET s == call'[c]
        r == s.lastResp
    IN
    /\ r.errmsg = Absent
    /\ r.status = Absent
    /\ r.net \in {"ok", "network"}
    /\ r.status_code \in {Absent, "IN_PROGRESS", "FINISHED", "ERROR"}
    /\ r.kind = "poll" /\ r.ok => r.status_code # Absent
    /\ ~r.ok => r.id = Absent /\ r.success = Absent /\ r.status_code = Absent
    /\ r.ok /\ r.kind \in {"session", "create", "publish"} => r.id \in Ids
    /\ r.ok /\ r.kind = "bytes" => r.success = "true"
    /\ r.kind = "poll" /\ s.sent["poll"] >= PairMaxPolls => ~NonTerminalAnswer(r)

PairInit ==
    \E v1, v2 \in Variants, mt1, mt2 \in MediaTypes :
        LET uri == <<"data:image/png;base64", ",">> \o UnknownBytesPayload IN
        /\ call = [c \in Calls |-> IF c = "call1" THEN NewCall(v1, mt1, uri, "start")
                                   ELSE NewCall(v2, mt2, uri, "start")]
        /\ app = AppIdle

PairNext == \E c \in Calls : Step(c) /\ PairAnswer(c)

PairSpec == PairInit /\ [][PairNext]_vars

(***************************************************************************)
(* The upload of uploadMedia alone (lines 232-310, 445-499), for every     *)
(* payload of up to MaxPayloadLen characters: well-formed base64, missing  *)
(* padding, stray bits, the URL-safe alphabet, padding out of place.       *)
(***************************************************************************)
MaxPayloadLen == 4

PayloadChars == {"Q", "R", "_", "="}
Payloads == UNION {[1..n -> PayloadChars] : n \in 0..MaxPayloadLen}

UploadInit ==
    \E v \in {"V2", "V3"}, mt \in MediaTypes, payload \in Payloads :
        /\ call = [c \in Calls |->
                     IF c = "call1"
                     THEN NewCall(v, mt, <<"data:image/png;base64", ",">> \o payload, "start")
                     ELSE Idle]
        /\ app = AppIdle

UploadStep(c) ==
    \/ Decode(c)
    \/ UploadImageV2(c)
    \/ CreateVideoContainerV2(c)
    \/ UploadVideoFileV2(c)
    \/ CreateUploadSessionV3(c)
    \/ UploadToSessionV3(c)

UploadNext == \E c \in Calls : UploadStep(c) /\ PairAnswer(c)

UploadSpec == UploadInit /\ [][UploadNext]_vars

(***************************************************************************)
(* One click on "Publish": the form, the server action, the flow and the   *)
(* call of publishToInstagram it makes, with the platform's answers        *)
(* narrowed as for two calls.                                              *)
(***************************************************************************)
AppInit ==
    /\ call = [c \in Calls |-> Idle]
    /\ \E ui \in UiVersions, v \in Variants, content \in Contents,
          user \in Users, userDoc \in UserDocs :
         app = NewApp(ui, v, content, user, userDoc, "start")

PublishToInstagram ==
    /\ app.pc = "service"
    /\ \E c \in Calls : Step(c) /\ PairAnswer(c)

AppNext ==
    \/ HandlePublish
    \/ PublishAdToInstagram
    \/ PublishInstagramPostFlow
    \/ PublishToInstagram
    \/ ServiceEnds
    \/ HandleResult
    \/ HandleSaveAd

AppSpec == AppInit /\ [][AppNext]_vars

(***************************************************************************)
(* What the properties below read                                          *)
(***************************************************************************)
Running == {c \in Calls : call[c].pc # "idle"}

Occurrences(seq, x) == Cardinality({k \in DOMAIN seq : seq[k] = x})

\* the platform's message when the body carries one, else the step's generic
MessageExpected(resp, generic) ==
    IF resp.errmsg \in {Absent, ""} THEN <<Prefix, generic>> ELSE <<Prefix, resp.errmsg>>

\* a response that is a failure by the contract of its step
ContractFailure(r) ==
    /\ r.kind # "none"
    /\ \/ r.net # "ok"
       \/ ~r.ok
       \/ r.kind \in {"session", "create", "publish"} /\ r.id \in {Absent, ""}
       \/ r.kind = "bytes" /\ r.success # "true"
       \/ r.kind = "poll" /\ r.status_code \in {"ERROR", "EXPIRED"}

PublishAccepted(r) ==
    r.kind = "publish" /\ r.net = "ok" /\ r.ok /\ r.id \notin {Absent, ""}

(***************************************************************************)
(* C1  Every error a stage raises reaches the caller as exactly one error  *)
(* whose message is "Instagram publishing failed: " followed by the        *)
(* stage's message; the prefix occurs once, and a call in which a stage    *)
(* raised never returns a value.                                           *)
(***************************************************************************)
C1_UniformError ==
    \A c \in Running :
        LET s == call[c] IN
        /\ s.outcome = "thrown" =>
             /\ s.stageError # <<>>
             /\ s.error = <<Prefix>> \o s.stageError
             /\ Occurrences(s.error, Prefix) = 1
             /\ s.thrown = 1
             /\ s.result = Absent
        /\ s.stageError # <<>> => s.outcome = "thrown"
        /\ ContractFailure(s.lastResp) => s.outcome = "thrown"
        /\ s.outcome = "returned" => s.thrown = 0 /\ s.error = <<>>

C1_Witness ==
    \E c \in Running :
        /\ call[c].outcome = "thrown"
        /\ call[c].variant = "V3"
        /\ call[c].lastResp.kind = "publish"
        /\ call[c].error = <<Prefix, PlatformMessage>>

(***************************************************************************)
(* C2  As claimed: in every run media_publish is issued only after a       *)
(* status poll has returned FINISHED, never before the first poll.         *)
(***************************************************************************)
C2_PollThenPublishEverywhere ==
    \A c \in Running :
        call[c].sent["publish"] > 0 =>
            call[c].finishedBeforePublish /\ call[c].pollsBeforePublish >= 1

(***************************************************************************)
(* C2  As amended: in the poll-then-publish versions (V2, V3) media_publish*)
(* is issued only after a status poll has returned FINISHED and no poll    *)
(* follows it; in the publish-then-poll version (V1) media_publish is      *)
(* issued before the first status poll and every poll follows it.  No      *)
(* version mixes the two orderings.                                        *)
(***************************************************************************)
C2_OrderingPerVersion ==
    \A c \in Running :
        LET s == call[c] IN
        /\ s.variant \in {"V2", "V3"} /\ s.sent["publish"] > 0 =>
             /\ s.finishedBeforePublish
             /\ s.pollsBeforePublish >= 1
             /\ s.sent["poll"] = s.pollsBeforePublish
             /\ FinishedAnswer(s.lastPoll)
        /\ s.variant = "V1" /\ s.sent["poll"] > 0 =>
             /\ s.sent["publish"] = 1
             /\ s.pollsBeforePublish = 0
             /\ ~s.finishedBeforePublish

C2_Witness ==
    \E c \in Running :
        /\ call[c].variant = "V2"
        /\ call[c].sent["publish"] = 1
        /\ call[c].pollsBeforePublish = 3
        /\ call[c].outcome = "returned"

(***************************************************************************)
(* C3  If the first N-1 polls answer IN_PROGRESS and poll N answers        *)
(* FINISHED (N <= the maximum), the call polls no more, succeeds once the  *)
(* publish call is accepted, and exactly one delay lies between each two   *)
(* consecutive polls; while only IN_PROGRESS has been answered and fewer   *)
(* than the maximum polls were made, the call is still polling.            *)
(***************************************************************************)
C3_FinishedOnPollN ==
    \A c \in Running :
        LET s == call[c]
            N == s.sent["poll"]
        IN
        /\ FinishedAnswer(s.lastPoll) /\ s.priorInProgress =>
             /\ s.i = N - 1
             /\ s.gapsOK
             /\ s.delays = (IF s.variant = "V1" THEN N ELSE N - 1)
             /\ IF s.variant = "V1"
                THEN s.outcome = "returned"
                ELSE /\ s.pc \in {"publish", "done"}
                     /\ s.pc = "publish" => s.outcome = "pending"
                     /\ PublishAccepted(s.lastResp) => s.outcome = "returned"
        /\ N >= 1 /\ InProgressAnswer(s.lastPoll) /\ s.priorInProgress
             /\ N < MaxPolls(s.variant) =>
             /\ s.outcome = "pending"
             /\ s.pc \in {"delay", "poll"}
             /\ s.gapsOK

C3_Witness ==
    \E c \in Running :
        /\ call[c].variant = "V3"
        /\ call[c].sent["poll"] = MaxPollsPollThenPublish
        /\ FinishedAnswer(call[c].lastPoll)
        /\ call[c].priorInProgress
        /\ call[c].delays = MaxPollsPollThenPublish - 1
        /\ call[c].outcome = "returned"

(***************************************************************************)
(* C4  If every status poll answers a non-terminal status, the call ends   *)
(* with the timeout error, which no ERROR / EXPIRED answer produces, after *)
(* exactly 10 polls (V1) or 20 polls (V2, V3), and never polls more.       *)
(***************************************************************************)
C4_TimeoutAfterMaxPolls ==
    \A c \in Running :
        LET s == call[c]
            onlyNonTerminal ==
                s.sent["poll"] >= 1 /\ NonTerminalAnswer(s.lastPoll) /\ s.priorNonTerminal
        IN
        /\ onlyNonTerminal => s.sent["poll"] <= MaxPolls(s.variant)
        /\ onlyNonTerminal /\ s.pc = "done" =>
             /\ s.outcome = "thrown"
             /\ s.sent["poll"] = MaxPolls(s.variant)
             /\ s.sent["poll"] = (IF s.variant = "V1" THEN 10 ELSE 20)
             /\ s.error = (IF s.variant = "V1"
                           THEN <<Prefix, "Publishing timed out.">>
                           ELSE <<Prefix, "Media container processing timed out.">>)
             /\ \A r \in StatusResponses :
                    s.error # <<Prefix>> \o ProcessingError(s.variant, r).message

C4_Witness ==
    \E c \in Running :
        /\ call[c].variant = "V1"
        /\ call[c].pc = "done"
        /\ call[c].sent["poll"] = 10
        /\ NonTerminalAnswer(call[c].lastPoll)
        /\ call[c].priorNonTerminal
        /\ call[c].error = <<Prefix, TimedOutV1>>

(***************************************************************************)
(* C5  A status poll answering ERROR or EXPIRED ends the call at once: it  *)
(* is the last request of the run, the call throws, and the message embeds *)
(* the `status` field of that answer.                                      *)
(***************************************************************************)
C5_ProcessingFailureIsTerminal ==
    \A c \in Running :
        LET s == call[c]
            r == s.lastPoll
        IN
        r.kind = "poll" /\ r.net = "ok" /\ r.ok /\ r.status_code \in {"ERROR", "EXPIRED"} =>
            /\ s.pc = "done"
            /\ s.outcome = "thrown"
            /\ s.lastResp = r
            /\ Embeds(s.error, Str(r.status))
            /\ s.error[1] = Prefix

C5_Witness ==
    \E c \in Running :
        /\ call[c].lastPoll.status_code = "EXPIRED"
        /\ call[c].lastPoll.ok
        /\ call[c].lastPoll.status = PlatformStatus
        /\ call[c].sent["poll"] = 2
        /\ call[c].outcome = "thrown"

(***************************************************************************)
(* C6  A container-creation answer with an HTTP-success status and no id   *)
(* makes the call throw, with the platform's error.message when the body   *)
(* carries one and the step's generic message otherwise, and neither a     *)
(* poll nor a publish call is issued.                                      *)
(***************************************************************************)
GenericCreateMessage(s) ==
    CASE s.variant = "V1" -> "Failed to upload media to Instagram."
      [] s.variant = "V2" /\ s.mediaType = "image" -> "Failed to upload image."
      [] s.variant = "V2" /\ s.mediaType = "video" -> "Failed to create video container."
      [] OTHER -> "Failed to create media container from upload session."

C6_CreateWithoutIdFails ==
    \A c \in Running :
        LET s == call[c]
            r == s.lastResp
        IN
        r.kind = "create" /\ r.net = "ok" /\ r.ok /\ r.id \in {Absent, ""} =>
            /\ s.pc = "done"
            /\ s.outcome = "thrown"
            /\ s.result = Absent
            /\ s.error = MessageExpected(r, GenericCreateMessage(s))
            /\ s.sent["poll"] = 0
            /\ s.sent["publish"] = 0
            /\ s.sent["bytes"] = (IF s.variant = "V3" THEN 1 ELSE 0)

C6_Witness ==
    \E c \in Running :
        /\ call[c].variant = "V2"
        /\ call[c].mediaType = "video"
        /\ call[c].lastResp.kind = "create"
        /\ call[c].lastResp.ok
        /\ call[c].lastResp.id = Absent
        /\ call[c].lastResp.errmsg = Absent
        /\ call[c].error = <<Prefix, "Failed to create video container.">>

(***************************************************************************)
(* C7  On a successful run the status polls and the creation_id of         *)
(* media_publish carry the container id that the container-creation answer *)
(* returned, and the value returned to the caller is the non-empty id of   *)
(* the media_publish answer.                                               *)
(***************************************************************************)
C7_IdentifiersThreaded ==
    \A c \in Running :
        LET s == call[c] IN
        s.outcome = "returned" =>
            /\ s.got["create"] \notin {Absent, ""}
            /\ s.sent["poll"] >= 1
            /\ s.ref["poll"] = s.got["create"]
            /\ s.ref["publish"] = s.got["create"]
            /\ s.result = s.got["publish"]
            /\ s.result \notin {Absent, ""}

C7_Witness ==
    \E c \in Running :
        /\ call[c].variant = "V3"
        /\ call[c].outcome = "returned"
        /\ call[c].got["session"] # call[c].got["create"]
        /\ call[c].got["publish"] # call[c].got["create"]

(***************************************************************************)
(* C8  Once a response has come back that is a failure (a rejected or      *)
(* unparsable request, a non-success status, a missing id or success flag, *)
(* ERROR or EXPIRED), the run issues no further request and sleeps no      *)
(* more: no later stage, no repeat, no cleanup of the container.           *)
(***************************************************************************)
C8_AbortWithoutRollback ==
    [][ \A c \in Calls :
          ContractFailure(call[c].lastResp) =>
              /\ call'[c].sent = call[c].sent
              /\ call'[c].delays = call[c].delays
              /\ call'[c].lastResp = call[c].lastResp ]_vars

C8_Witness ==
    \E c \in Running :
        /\ ContractFailure(call[c].lastResp)
        /\ call[c].lastResp.kind = "bytes"
        /\ call[c].variant = "V2"
        /\ call[c].sent["create"] = 1
        /\ call[c].got["create"] \in Ids
        /\ call[c].pc = "done"

(***************************************************************************)
(* C9  In one run the upload-session request, the container creation, the  *)
(* byte upload and media_publish are each issued at most once; the status  *)
(* poll is issued at most 10 (V1) or 20 (V2, V3) times.                    *)
(***************************************************************************)
C9_NoRetryOutsidePollLoop ==
    \A c \in Running :
        /\ \A k \in Kinds \ {"poll"} : call[c].sent[k] <= 1
        /\ call[c].sent["poll"] <= MaxPolls(call[c].variant)

C9_Witness ==
    \E c \in Running :
        /\ call[c].variant = "V3"
        /\ \A k \in Kinds \ {"poll"} : call[c].sent[k] = 1
        /\ call[c].sent["poll"] = MaxPollsPollThenPublish
        /\ call[c].lastResp.kind = "publish"
        /\ ContractFailure(call[c].lastResp)

(***************************************************************************)
(* C10  A status poll answered with a non-success HTTP status ends the     *)
(* call: it throws after that poll and polls no more, whatever status_code *)
(* the body carries and however many polls remain.                         *)
(***************************************************************************)
GenericStatusMessage(s) ==
    IF s.variant = "V1" THEN "Failed to get publishing status."
    ELSE "Failed to get container status."

C10_PollHttpFailureIsTerminal ==
    \A c \in Running :
        LET s == call[c]
            r == s.lastPoll
        IN
        r.kind = "poll" /\ r.net = "ok" /\ ~r.ok =>
            /\ s.pc = "done"
            /\ s.outcome = "thrown"
            /\ s.lastResp = r
            /\ s.error = MessageExpected(r, GenericStatusMessage(s))

C10_Witness ==
    \E c \in Running :
        /\ call[c].lastPoll.kind = "poll"
        /\ call[c].lastPoll.net = "ok"
        /\ ~call[c].lastPoll.ok
        /\ call[c].lastPoll.status_code = "FINISHED"
        /\ call[c].sent["poll"] = 1
        /\ call[c].outcome = "thrown"

(***************************************************************************)
(* C11  As claimed: a media source without a base64 payload after a comma  *)
(* (the empty string included) makes the call fail at once with the input  *)
(* error, and no request is sent to the platform.                          *)
(***************************************************************************)
\* the string has no comma, or nothing between its first comma and the next
Malformed(uri) ==
    \A k \in DOMAIN uri :
        (uri[k] = "," /\ \A j \in 1..(k - 1) : uri[j] # ",") =>
            (k = Len(uri) \/ uri[k + 1] = ",")

NothingSent(s) == \A k \in Kinds : s.sent[k] = 0

C11_MalformedNeverSent ==
    \A c \in Running :
        LET s == call[c] IN
        Malformed(s.mediaDataUri) =>
            /\ NothingSent(s)
            /\ s.pc # "start" =>
                 s.pc = "done" /\ s.outcome = "thrown"
                 /\ s.error = <<Prefix, InvalidDataUri>>

(***************************************************************************)
(* C11  As amended: in the versions that decode a data URI (V2, V3) a      *)
(* media source without a base64 payload makes the call fail at its first  *)
(* step with "Invalid data URI provided." and no request is sent, and a    *)
(* source with a payload is not refused; the URL-reference version (V1)    *)
(* does not inspect the string: it sends it as image_url / video_url.      *)
(***************************************************************************)
C11_MalformedRefusedWhenDecoded ==
    \A c \in Running :
        LET s == call[c] IN
        /\ s.variant \in {"V2", "V3"} /\ Malformed(s.mediaDataUri) =>
             /\ NothingSent(s)
             /\ s.delays = 0
             /\ s.pc \in {"start", "done"}
             /\ s.pc = "done" =>
                  s.outcome = "thrown" /\ s.error = <<Prefix, InvalidDataUri>>
        /\ s.variant \in {"V2", "V3"} /\ ~Malformed(s.mediaDataUri) =>
             s.error # <<Prefix, InvalidDataUri>>
        /\ s.variant = "V1" /\ s.pc # "start" => s.sent["create"] = 1

C11_Witness ==
    \E c \in Running :
        /\ call[c].variant = "V3"
        /\ call[c].mediaDataUri = <<>>
        /\ call[c].pc = "done"
        /\ call[c].error = <<Prefix, InvalidDataUri>>
        /\ NothingSent(call[c])

(***************************************************************************)
(* C12  As claimed: an image given as a remote URL is published with one   *)
(* container-create call, one publish call and no status poll.             *)
(***************************************************************************)
RemoteImage(s) == s.mediaDataUri = <<"https://x/y.jpg">> /\ s.mediaType = "image"

C12_RemoteImageWithoutPoll ==
    \A c \in Running :
        LET s == call[c] IN
        RemoteImage(s) /\ s.outcome = "returned" =>
            /\ s.sent["create"] = 1
            /\ s.sent["publish"] = 1
            /\ s.sent["poll"] = 0

(***************************************************************************)
(* C12  As amended: in the URL-reference version (V1) an image given as a  *)
(* remote URL is published with exactly one container-create call, one     *)
(* publish call and at least one status poll: the post id of the publish   *)
(* answer is returned when a poll answers FINISHED, on the first poll if   *)
(* the platform says so.  V2 and V3 refuse a remote URL as an invalid data *)
(* URI without any request.                                                *)
(***************************************************************************)
C12_RemoteImagePublished ==
    \A c \in Running :
        LET s == call[c] IN
        RemoteImage(s) =>
            /\ s.variant = "V1" /\ s.outcome = "returned" =>
                 /\ s.sent["create"] = 1
                 /\ s.sent["publish"] = 1
                 /\ s.sent["poll"] >= 1
                 /\ FinishedAnswer(s.lastPoll)
                 /\ s.result = s.got["publish"]
                 /\ s.result \in Ids
            /\ s.variant = "V1" /\ FinishedAnswer(s.lastPoll) => s.outcome = "returned"
            /\ s.variant \in {"V2", "V3"} => s.outcome # "returned" /\ NothingSent(s)

C12_Witness ==
    \E c \in Running :
        /\ RemoteImage(call[c])
        /\ call[c].variant = "V1"
        /\ call[c].outcome = "returned"
        /\ call[c].sent["poll"] = 1
        /\ call[c].sent["create"] = 1
        /\ call[c].sent["publish"] = 1

(***************************************************************************)
(* C13  The publish step succeeds only on an HTTP-success answer with a    *)
(* populated id: an HTTP-success answer without id, or a non-success       *)
(* answer with an id, makes the call throw, and no post id is returned.    *)
(***************************************************************************)
C13_PublishNeedsStatusAndId ==
    \A c \in Running :
        LET s == call[c]
            r == s.lastResp
        IN
        /\ r.kind = "publish" /\ r.net = "ok" /\ (~r.ok \/ r.id \in {Absent, ""}) =>
             /\ s.pc = "done"
             /\ s.outcome = "thrown"
             /\ s.result = Absent
             /\ s.variant = "V1" => s.sent["poll"] = 0 /\ s.delays = 0
        /\ s.outcome = "returned" =>
             /\ s.httpOk["publish"]
             /\ s.got["publish"] \in Ids
             /\ s.result = s.got["publish"]
        /\ s.variant = "V1" /\ s.sent["poll"] > 0 =>
             s.httpOk["publish"] /\ s.got["publish"] \in Ids

C13_Witness ==
    \E c \in Running :
        /\ call[c].variant = "V2"
        /\ call[c].lastResp.kind = "publish"
        /\ call[c].lastResp.net = "ok"
        /\ ~call[c].lastResp.ok
        /\ call[c].lastResp.id \in Ids
        /\ call[c].outcome = "thrown"

(***************************************************************************)
(* C14  The byte upload counts as successful only on an HTTP-success       *)
(* answer with success: true; otherwise the call throws and neither the    *)
(* container creation from the session, nor a poll, nor a publish follows. *)
(***************************************************************************)
GenericBytesMessage(s) ==
    IF s.variant = "V2" THEN "Failed to upload video file to Instagram."
    ELSE "Failed to upload media file to Instagram."

C14_ByteUploadNeedsSuccessFlag ==
    \A c \in Running :
        LET s == call[c]
            r == s.lastResp
        IN
        /\ r.kind = "bytes" /\ r.net = "ok" /\ (~r.ok \/ r.success # "true") =>
             /\ s.pc = "done"
             /\ s.outcome = "thrown"
             /\ s.error = MessageExpected(r, GenericBytesMessage(s))
             /\ s.sent["poll"] = 0
             /\ s.sent["publish"] = 0
             /\ s.variant = "V3" => s.sent["create"] = 0
        /\ s.sent["bytes"] > 0 /\ s.pc # "done" =>
             s.httpOk["bytes"] /\ s.success = "true"
        /\ s.sent["bytes"] > 0 /\ r.kind # "bytes" =>
             s.httpOk["bytes"] /\ s.success = "true"

C14_Witness ==
    \E c \in Running :
        /\ call[c].variant = "V3"
        /\ call[c].lastResp.kind = "bytes"
        /\ call[c].lastResp.ok
        /\ call[c].lastResp.success = Absent
        /\ call[c].outcome = "thrown"
        /\ call[c].sent["create"] = 0

(***************************************************************************)
(* C15  When the answer that failed an upload or publish step carries a    *)
(* non-empty error.message, the call throws exactly "Instagram publishing  *)
(* failed: " followed by that message; the step's generic message is used  *)
(* only when the answer carries none.                                      *)
(***************************************************************************)
GenericMessage(s, kind) ==
    CASE kind = "session" -> "Failed to create upload session."
      [] kind = "create" -> GenericCreateMessage(s)
      [] kind = "bytes" -> GenericBytesMessage(s)
      [] OTHER -> IF s.variant = "V1" THEN "Failed to initiate media publishing."
                  ELSE "Failed to publish media container."

C15_PlatformMessageVerbatim ==
    \A c \in Running :
        LET s == call[c]
            r == s.lastResp
        IN
        r.kind \in {"session", "create", "bytes", "publish"} /\ r.net = "ok"
            /\ ContractFailure(r) =>
            /\ s.outcome = "thrown"
            /\ r.errmsg \notin {Absent, ""} => s.error = <<Prefix, r.errmsg>>
            /\ s.error = <<Prefix, GenericMessage(s, r.kind)>> => r.errmsg \in {Absent, ""}
            /\ r.errmsg \in {Absent, ""} => s.error = <<Prefix, GenericMessage(s, r.kind)>>

C15_Witness ==
    \E c \in Running :
        /\ call[c].variant = "V1"
        /\ call[c].lastResp.kind = "publish"
        /\ call[c].lastResp.ok
        /\ call[c].lastResp.id = Absent
        /\ call[c].lastResp.errmsg = PlatformMessage
        /\ call[c].error = <<Prefix, PlatformMessage>>

(***************************************************************************)
(* C16  The caller never receives an empty failure reason: in every        *)
(* failing call the text after the prefix is non-empty, whatever the       *)
(* failing stage and whatever the platform's answer lacks.                 *)
(***************************************************************************)
C16_ReasonNeverEmpty ==
    \A c \in Running :
        LET s == call[c] IN
        s.outcome = "thrown" =>
            /\ Len(s.error) >= 2
            /\ s.error[1] = Prefix
            /\ \E k \in 2..Len(s.error) : s.error[k] # ""

C16_Witness ==
    \E c \in Running :
        /\ call[c].outcome = "thrown"
        /\ call[c].lastResp.kind = "poll"
        /\ call[c].lastResp.net = "ok"
        /\ ~call[c].lastResp.ok
        /\ call[c].lastResp.errmsg = ""
        /\ call[c].error = <<Prefix, "Failed to get container status.">>

(***************************************************************************)
(* C17  Every status_code other than FINISHED, ERROR and EXPIRED is        *)
(* non-terminal.  As stated (after every such answer the poller waits and  *)
(* polls again) the property fails on the last poll of the budget.         *)
(***************************************************************************)
C17_NonTerminalAlwaysPolledAgain ==
    \A c \in Running :
        LET s == call[c] IN
        s.lastResp.kind = "poll" /\ NonTerminalAnswer(s.lastResp) =>
            s.pc \in {"delay", "poll"}

(***************************************************************************)
(* C17 (amended)  A non-terminal status_code never yields success or a     *)
(* processing error; while fewer than the maximum number of polls have     *)
(* been made the poller waits the delay and polls again, and on the last   *)
(* poll of the budget the only outcome is the time-out error.              *)
(***************************************************************************)
C17_NonTerminalPolledAgainWithinBudget ==
    \A c \in Running :
        LET s == call[c]
            r == s.lastResp
            timeout == IF s.variant = "V1" THEN TimedOutV1 ELSE TimedOut
        IN
        r.kind = "poll" /\ NonTerminalAnswer(r) =>
            /\ s.outcome # "returned"
            /\ s.outcome = "thrown" =>
                 s.error = <<Prefix, timeout>> /\ s.sent["poll"] = MaxPolls(s.variant)
            /\ s.sent["poll"] < MaxPolls(s.variant) =>
                 s.outcome = "pending" /\ s.pc \in {"delay", "poll"}
            /\ s.pc = "poll" => s.delaysSincePoll = 1
            /\ s.gapsOK

C17_Witness ==
    \E c \in Running :
        /\ call[c].lastResp.kind = "poll"
        /\ call[c].lastResp.ok
        /\ call[c].lastResp.status_code \notin
               {"IN_PROGRESS", "FINISHED", "ERROR", "EXPIRED"}
        /\ call[c].sent["poll"] = 2
        /\ call[c].pc = "poll"
        /\ call[c].delaysSincePoll = 1

(***************************************************************************)
(* C18  Bounded termination: when every HTTP call and every delay          *)
(* eventually completes, every call eventually ends (returns a post id or  *)
(* throws), and the number of status polls never exceeds the maximum of    *)
(* its version (10 or 20), whatever the platform answers.                  *)
(***************************************************************************)
Ended(c) ==
    /\ call[c].pc = "done"
    /\ \/ call[c].outcome = "returned" /\ call[c].result \in Ids
       \/ call[c].outcome = "thrown" /\ call[c].error # <<>>

C18_BoundedTermination ==
    /\ [](\A c \in Running : call[c].sent["poll"] <= MaxPolls(call[c].variant))
    /\ <>(\A c \in Running : Ended(c))

C18_Witness ==
    \E c \in Running :
        /\ call[c].variant = "V2"
        /\ Ended(c)
        /\ call[c].sent["poll"] = MaxPolls("V2")
        /\ call[c].outcome = "thrown"

(***************************************************************************)
(* C19  In the two-phase video upload the bytes are sent only after the    *)
(* container-create call answered with an HTTP-success status and an id,   *)
(* they are sent to exactly that container id, and that id is the one      *)
(* uploadMedia returns (the one polled and published afterwards).          *)
(***************************************************************************)
TwoPhaseVideo == {c \in Running : call[c].variant = "V2" /\ call[c].mediaType = "video"}

C19_VideoBytesAfterCreate ==
    \A c \in TwoPhaseVideo :
        LET s == call[c] IN
        /\ s.sent["bytes"] <= 1 /\ s.sent["create"] <= 1
        /\ s.pc = "uploadVideoFile" \/ s.sent["bytes"] > 0 =>
             /\ s.sent["create"] = 1
             /\ s.httpOk["create"]
             /\ s.got["create"] \in Ids
             /\ s.containerId = s.got["create"]
        /\ s.sent["bytes"] > 0 => s.ref["bytes"] = s.got["create"]
        /\ s.sent["poll"] > 0 =>
             s.sent["bytes"] = 1 /\ s.ref["poll"] = s.got["create"]
        /\ s.sent["publish"] > 0 => s.ref["publish"] = s.got["create"]

C19_Witness ==
    \E c \in TwoPhaseVideo :
        /\ call[c].sent["bytes"] = 1
        /\ call[c].ref["bytes"] \in Ids
        /\ call[c].ref["bytes"] = call[c].got["create"]
        /\ call[c].sent["poll"] > 0
        /\ call[c].ref["poll"] = call[c].got["create"]

(***************************************************************************)
(* C20  In the resumable-session upload the steps are session request,     *)
(* byte upload, container creation, each sent only after the previous one  *)
(* succeeded; the bytes go to the session id, the container creation names *)
(* that session id as upload_id, and uploadMedia returns the id of the     *)
(* container-creation answer, not the session id.                          *)
(***************************************************************************)
Resumable == {c \in Running : call[c].variant = "V3"}

C20_SessionBytesContainerInOrder ==
    \A c \in Resumable :
        LET s == call[c] IN
        /\ s.sent["session"] <= 1 /\ s.sent["bytes"] <= 1 /\ s.sent["create"] <= 1
        /\ s.pc = "uploadToSession" \/ s.sent["bytes"] > 0 =>
             /\ s.sent["session"] = 1
             /\ s.httpOk["session"]
             /\ s.got["session"] \in Ids
        /\ s.sent["bytes"] > 0 => s.ref["bytes"] = s.got["session"]
        /\ s.pc = "createContainer" \/ s.sent["create"] > 0 =>
             /\ s.sent["bytes"] = 1
             /\ s.httpOk["bytes"]
             /\ s.success = "true"
        /\ s.sent["create"] > 0 => s.ref["create"] = s.got["session"]
        /\ s.sent["poll"] > 0 =>
             /\ s.sent["create"] = 1
             /\ s.httpOk["create"]
             /\ s.got["create"] \in Ids
             /\ s.containerId = s.got["create"]
             /\ s.ref["poll"] = s.got["create"]
        /\ s.sent["publish"] > 0 => s.ref["publish"] = s.got["create"]

C20_Witness ==
    \E c \in Resumable :
        /\ call[c].got["session"] \in Ids
        /\ call[c].got["create"] \in Ids
        /\ call[c].got["session"] # call[c].got["create"]
        /\ call[c].ref["bytes"] = call[c].got["session"]
        /\ call[c].ref["create"] = call[c].got["session"]
        /\ call[c].sent["poll"] > 0
        /\ call[c].ref["poll"] = call[c].got["create"]

(***************************************************************************)
(* C21  When the prober does not identify the decoded bytes the upload is  *)
(* not abandoned: the request carrying the media is sent with the default  *)
(* Content-Type of the media kind (image/jpeg; application/octet-stream    *)
(* or video/mp4 for a video); when the prober identifies a type, that type *)
(* is the Content-Type.                                                    *)
(***************************************************************************)
BinaryUploads == {c \in Running : call[c].variant \in {"V2", "V3"}}

MediaSent(s) ==
    IF s.variant = "V2" /\ s.mediaType = "image" THEN s.sent["create"] > 0
    ELSE s.sent["bytes"] > 0

\* a later step was taken although the media were never sent
MediaSkipped(s) ==
    /\ ~MediaSent(s)
    /\ \/ s.sent["poll"] > 0
       \/ s.sent["publish"] > 0
       \/ s.variant = "V3" /\ s.sent["create"] > 0
       \/ s.pc \in {"poll", "delay", "createContainer"}

C21_ContentTypeDetectedOrDefault ==
    \A c \in BinaryUploads :
        LET s == call[c]
            detected == FileTypeFromBuffer(s.body).mime
        IN
        /\ ~MediaSkipped(s)
        /\ MediaSent(s) =>
             /\ detected # Absent => s.contentType = detected
             /\ detected = Absent /\ s.mediaType = "image" => s.contentType = "image/jpeg"
             /\ detected = Absent /\ s.mediaType = "video" =>
                  s.contentType = IF s.variant = "V2" THEN "application/octet-stream"
                                  ELSE "video/mp4"
        /\ s.outcome = "thrown" /\ NothingSent(s) =>
             NoBase64Data(s.base64Data) /\ s.error = <<Prefix, InvalidDataUri>>

C21_Witness ==
    \E c \in BinaryUploads :
        /\ call[c].variant = "V3"
        /\ call[c].mediaType = "video"
        /\ call[c].body = <<65, 66, 67>>
        /\ call[c].sent["bytes"] = 1
        /\ call[c].contentType = "video/mp4"

(***************************************************************************)
(* C22  Two calls of publishToInstagram in flight at once are independent  *)
(* under every interleaving of their steps: each polls and publishes only  *)
(* the container its own upload produced, returns only the id of its own   *)
(* publish answer, ends as its own answers decide, and a step of one call  *)
(* changes nothing of the other (no shared mutable state).                 *)
(***************************************************************************)
OwnIdentifiers(s) ==
    /\ s.sent["poll"] > 0 =>
         s.httpOk["create"] /\ s.got["create"] \in Ids /\ s.ref["poll"] = s.got["create"]
    /\ s.sent["publish"] > 0 => s.ref["publish"] = s.got["create"]
    /\ s.sent["poll"] <= MaxPolls(s.variant)
    /\ s.outcome = "returned" =>
         /\ s.result = s.got["publish"]
         /\ s.httpOk["publish"]
         /\ FinishedAnswer(s.lastPoll)
    /\ s.outcome = "thrown" => s.result = Absent /\ s.lastResp.kind # "none"

C22_ConcurrentCallsIndependent ==
    /\ [](\A c \in Running : OwnIdentifiers(call[c]))
    /\ [][\A c \in Calls :
            call'[c] # call[c] => \A d \in Calls \ {c} : call'[d] = call[d]]_vars

C22_Witness ==
    /\ \A c \in Calls :
         /\ call[c].outcome = "pending"
         /\ call[c].sent["poll"] = 1
         /\ call[c].ref["poll"] = call[c].got["create"]
    /\ call["call1"].containerId # call["call2"].containerId
    /\ call["call1"].variant # call["call2"].variant

(***************************************************************************)
(* C23  The access token is never written to the log: no console.log or    *)
(* console.error line of a call, successful or failing, holds the          *)
(* accessToken value.                                                      *)
(***************************************************************************)
C23_TokenNeverLogged == \A c \in Running : ~call[c].tokenLogged

\* where the token does reach the log: a rejected fetch (or an unreadable
\* body) of a request whose URL carries access_token
C23_TokenLoggedOnlyWithUrl ==
    \A c \in Running :
        LET s == call[c] IN
        s.tokenLogged =>
            /\ s.outcome = "thrown"
            /\ s.lastResp.net # "ok"
            /\ \/ s.lastResp.kind = "poll"
               \/ s.lastResp.kind = "create" /\ s.variant = "V2" /\ s.mediaType = "image"
            /\ Embeds(s.error, AccessToken)

(***************************************************************************)
(* C24  Media bytes are never altered in transit.  As stated (for every    *)
(* data URI, the decoded bytes encoded again are the payload, character    *)
(* for character) the property fails for payloads that are not canonical   *)
(* base64: the decoder accepts them, the encoder never produces them.      *)
(***************************************************************************)
\* buffer.toString('base64')
RECURSIVE ToBase64(_)
ToBase64(bytes) ==
    LET ch(v) == Base64Alphabet[v + 1] IN
    IF bytes = <<>> THEN <<>>
    ELSE IF Len(bytes) = 1
    THEN <<ch(bytes[1] \div 4), ch((bytes[1] % 4) * 16), "=", "=">>
    ELSE IF Len(bytes) = 2
    THEN <<ch(bytes[1] \div 4), ch((bytes[1] % 4) * 16 + bytes[2] \div 16),
           ch((bytes[2] % 16) * 4), "=">>
    ELSE <<ch(bytes[1] \div 4), ch((bytes[1] % 4) * 16 + bytes[2] \div 16),
           ch((bytes[2] % 16) * 4 + bytes[3] \div 64), ch(bytes[3] % 64)>>
         \o ToBase64(SubSeq(bytes, 4, Len(bytes)))

\* the text after "data:<type>;base64,"
PayloadOf(uri) == SubSeq(uri, 3, Len(uri))

\* base64 as an encoder writes it: the standard alphabet, whole groups of
\* four, "=" only as padding at the end, no stray bits before the padding
Canonical(p) ==
    LET n == Len(p)
        pad == IF n >= 2 /\ p[n] = "=" /\ p[n - 1] = "=" THEN 2
               ELSE IF n >= 1 /\ p[n] = "=" THEN 1 ELSE 0
        standard(ch) == \E k \in 1..64 : Base64Alphabet[k] = ch
    IN
    /\ n % 4 = 0
    /\ \A k \in 1..(n - pad) : standard(p[k])
    /\ pad = 1 => Base64Value(p[n - 1]) % 4 = 0
    /\ pad = 2 => Base64Value(p[n - 2]) % 16 = 0

AttemptFailed == app.actionReturns > 0 /\ app.result.postId = Absent

C25_OneErrorPerFailedAttempt ==
    /\ app.actionReturns <= app.actionCalls
    /\ app.pc \in {"result", "save", "ended"} => app.actionReturns = app.actionCalls
    /\ app.toasts["Publishing Failed"] <= 1
    /\ app.actionReturns > 0 =>
         \/ app.result.postId \in Ids /\ app.result.error = <<>>
         \/ app.result.postId = Absent /\ ~EmptyText(app.result.error)
    /\ app.actionReturns > 0 /\ Falsy(app.userId) =>
         /\ app.result.error = <<AuthenticationRequired>>
         /\ app.flowCalls = 0
         /\ app.serviceCalls = 0
    /\ call["call1"].outcome = "thrown" /\ app.actionReturns > 0 =>
         app.result.error = call["call1"].error
    /\ AttemptFailed /\ app.pc \in {"save", "ended"} =>
         /\ app.pc = "ended"
         /\ app.toasts["Publishing Failed"] = 1
         /\ app.toasts["Published Successfully!"] = 0
         /\ app.description = app.result.error
         /\ \A t \in ToastTitles \ {"Publishing Failed"} : app.toasts[t] = 0

C25_Witness ==
    /\ app.pc = "ended"
    /\ app.userDoc.get = "rejectsWithoutMessage"
    /\ app.toasts["Publishing Failed"] = 1
    /\ app.description = <<UnexpectedError>>

(***************************************************************************)
(* C26  The automatic save follows only a publish that signalled success:  *)
(* handlePublish never calls handleSaveAd when publishAdToInstagram        *)
(* returned an error, when no user is signed in or when there is no        *)
(* generated content, and it calls it at most once per attempt.            *)
(***************************************************************************)
C26_SaveOnlyAfterSuccess ==
    /\ app.saveCalls <= 1
    /\ app.addDocs <= app.saveCalls
    /\ app.saveCalls > 0 =>
         /\ app.uiVersion = "part_001"
         /\ app.generatedContent.present
         /\ app.currentUser.present
         /\ app.actionReturns = 1
         /\ app.result.postId \in Ids
         /\ EmptyText(app.result.error)
         /\ call["call1"].outcome = "returned"
         /\ app.toasts["Published Successfully!"] = 1
         /\ app.toasts["Publishing Failed"] = 0
    /\ app.pc = "ended" /\ app.uiVersion = "part_001" /\ app.result.postId \in Ids =>
         app.saveCalls = 1

C26_Witness ==
    /\ app.pc = "ended"
    /\ app.saveCalls = 1
    /\ app.toasts["Ad Saved!"] = 1
    /\ app.toasts["Published Successfully!"] = 1
    /\ app.result.postId = call["call1"].result

(***************************************************************************)
(* C27  In the publish-then-poll version the value returned is the id of   *)
(* the initial media_publish answer, unchanged, returned after the first   *)
(* poll that reports FINISHED; when media_publish was accepted but polling *)
(* ends in ERROR, EXPIRED, a transport failure or the time-out, the caller *)
(* gets an error and no post id.                                           *)
(***************************************************************************)
PublishThenPoll == {c \in Running : call[c].variant = "V1"}

C27_InitialPublishIdReturned ==
    \A c \in PublishThenPoll :
        LET s == call[c]
            accepted == s.httpOk["publish"] /\ s.got["publish"] \in Ids
        IN
        /\ s.outcome = "returned" =>
             /\ accepted
             /\ s.sent["publish"] = 1
             /\ s.result = s.got["publish"]
             /\ FinishedAnswer(s.lastPoll)
             /\ s.lastResp = s.lastPoll
             /\ s.priorNonTerminal
        /\ accepted /\ FinishedAnswer(s.lastPoll) => s.outcome = "returned"
        /\ accepted /\ s.pc = "done" /\ ~FinishedAnswer(s.lastPoll) =>
             /\ s.outcome = "thrown"
             /\ s.result = Absent
             /\ s.sent["poll"] >= 1
             /\ \/ s.lastPoll.net # "ok"
                \/ ~s.lastPoll.ok
                \/ s.lastPoll.status_code \in {"ERROR", "EXPIRED"}
                \/ s.error = <<Prefix, TimedOutV1>>

C27_Witness ==
    \E c \in PublishThenPoll :
        /\ call[c].httpOk["publish"]
        /\ call[c].got["publish"] \in Ids
        /\ call[c].lastPoll.ok
        /\ call[c].lastPoll.status_code = "EXPIRED"
        /\ call[c].outcome = "thrown"
        /\ call[c].result = Absent

(***************************************************************************)
(* C28  In every version a post id is returned only in runs where a status *)
(* poll answered with an HTTP-success status and status_code FINISHED;     *)
(* neither for images nor for videos is there a path that returns a post   *)
(* id without such a poll.                                                 *)
(***************************************************************************)
C28_PostIdOnlyAfterFinishedPoll ==
    \A c \in Running :
        LET s == call[c] IN
        /\ s.outcome = "returned" =>
             /\ s.result \in Ids
             /\ s.sent["poll"] >= 1
             /\ s.httpOk["poll"]
             /\ s.lastPoll.net = "ok" /\ s.lastPoll.ok
             /\ s.lastPoll.status_code = "FINISHED"
        /\ s.variant \in {"V2", "V3"} /\ s.sent["publish"] > 0 =>
             s.finishedBeforePublish /\ s.pollsBeforePublish >= 1
        /\ s.result # Absent => s.outcome = "returned"

C28_Witness ==
    \E c \in Running :
        /\ call[c].variant = "V2"
        /\ call[c].mediaType = "image"
        /\ call[c].outcome = "returned"
        /\ call[c].sent["poll"] = 1
        /\ call[c].lastPoll.status_code = "FINISHED"

(***************************************************************************)
(* C29  In pollForContainerReady the first poll follows the upload with no *)
(* delay before it, and a call waits once per non-terminal poll: FINISHED  *)
(* on poll N means N-1 waits, and a call that times out made 20 polls and  *)
(* 20 waits, the last wait after the last poll and before the error.       *)
(***************************************************************************)
PollThenPublish == {c \in Running : call[c].variant \in {"V2", "V3"}}

C29_OneDelayPerNonTerminalPoll ==
    \A c \in PollThenPublish :
        LET s == call[c] IN
        /\ s.delaysBeforeFirstPoll = 0
        /\ s.gapsOK
        /\ s.sent["poll"] = 0 => s.delays = 0
        /\ s.pc = "poll" => s.delays = s.sent["poll"]
        /\ s.pc = "delay" => s.delays = s.sent["poll"] - 1
        /\ s.sent["poll"] > 0 /\ ~NonTerminalAnswer(s.lastPoll) =>
             s.delays = s.sent["poll"] - 1
        /\ s.error = <<Prefix, TimedOut>> =>
             /\ s.sent["poll"] = MaxPollsPollThenPublish
             /\ s.delays = MaxPollsPollThenPublish
             /\ s.delaysSincePoll = 1
             /\ NonTerminalAnswer(s.lastPoll)

C29_Witness ==
    \E c \in PollThenPublish :
        /\ call[c].error = <<Prefix, TimedOut>>
        /\ call[c].sent["poll"] = MaxPollsPollThenPublish
        /\ call[c].delays = MaxPollsPollThenPublish
        /\ call[c].delaysSincePoll = 1

(***************************************************************************)
(* C30  publishInstagramPostFlow calls publishToInstagram only when the    *)
(* user's document exists and instagramAccessToken and                     *)
(* instagramBusinessAccountId are both non-empty; otherwise it throws      *)
(* "User not found." or the credentials message and no request reaches the *)
(* platform.  When it calls, the caption passed is the input caption, a    *)
(* blank line, then the hashtags joined by single spaces, and the id that  *)
(* comes back is wrapped as { postId }.                                    *)
(***************************************************************************)
FlowAnswered == app.flowCalls > 0 /\ app.pc \in {"service", "result", "save", "ended"}

C30_FlowGuardsAndCaption ==
    LET d == app.userDoc
        content == app.generatedContent
        usable == /\ d.get = "resolves" /\ d.exists
                  /\ d.instagramAccessToken \notin {Absent, ""}
                  /\ d.instagramBusinessAccountId \notin {Absent, ""}
        tags == IF content.hashtags = <<>> THEN <<>> ELSE <<"#a", " ", "#b">>
    IN
    /\ app.serviceCalls <= 1
    /\ app.serviceCalls > 0 =>
         /\ usable
         /\ app.passed.accessToken = d.instagramAccessToken
         /\ app.passed.businessAccountId = d.instagramBusinessAccountId
         /\ app.passed.caption = <<content.caption, "\n\n">> \o tags
         /\ app.passed.mediaType = call["call1"].mediaType
         /\ app.passed.mediaDataUri = call["call1"].mediaDataUri
    /\ app.serviceCalls = 0 => call["call1"].pc = "idle" /\ NothingSent(call["call1"])
    /\ FlowAnswered /\ usable => app.serviceCalls = 1
    /\ FlowAnswered /\ ~usable =>
         /\ app.serviceCalls = 0
         /\ app.pc # "service"
         /\ app.result.postId = Absent
         /\ d.get = "resolves" /\ ~d.exists => app.result.error = <<UserNotFound>>
         /\ d.get = "resolves" /\ d.exists =>
              app.result.error = <<CredentialsNotConfigured>>
    /\ app.actionReturns > 0 /\ call["call1"].outcome = "returned" =>
         app.result = [error |-> <<>>, postId |-> call["call1"].result]

C30_Witness ==
    /\ app.userDoc.exists
    /\ app.userDoc.instagramAccessToken = AccessToken
    /\ app.userDoc.instagramBusinessAccountId = Absent
    /\ app.result.error = <<CredentialsNotConfigured>>
    /\ call["call1"].pc = "idle"

====
